---- MODULE Spec2Model ----
(***************************************************************************)
(* Model of the learning-agent course generation pipeline:                 *)
(*   services/course_builder.py            (Course Assembler)              *)
(*   services/educational_resource_finder.py (Resource Hunter)             *)
(*   services/resource_hunter_spawner.py, core/learning_graph.py           *)
(*   course_generator.py, objective_based_fetcher.py                       *)
(*   quality_scorer.py                     (QualityScorer)                 *)
(*   hybrid_resource_fetcher.py            (Google Search budget)          *)
(*   chatbot.py                            (ConversationalLearningChatbot) *)
(***************************************************************************)
EXTENDS Integers, Sequences, FiniteSets, TLC

VARIABLES
    pc,                 \* position of the run that is being modelled
    user_preferences,   \* LearningState.user_preferences (the timeline entry)
    learning_objectives,\* LearningState.learning_objectives
    objective_results,  \* LearningState.objective_results
    final_course,       \* LearningState.final_course, NoCourse until built
    summarizer,         \* outcome of the text summarizer call of this run
    search_provider,    \* "configured", "unconfigured" (no API key) or "failing"
    num_queries,        \* len(search_queries) of the hunter being followed
    queries_done,       \* iterations of the hunter's query loop completed
    results_in_query,   \* results of the current search call handled so far
    all_resources,      \* all_resources of the hunter being followed
    search_failures,    \* searches of that hunter that raised and were logged (line 49)
    tasks,              \* the Send list of spawn_resource_hunters
    task_writes,        \* per task: the objective_results it returned, once done
    completion_order,   \* task indices in the order the tasks finished
    raised_in,          \* the step whose exception ended the run, or "none"
    objective_resources,\* EnhancedCourseGenerator: objective -> its fetched resources
    learning_resource,  \* the LearningResource object handed to QualityScorer.score_resource
    resource_calls,     \* score_resource calls made so far on that object
    score_log,          \* one entry per score_resource call: its arguments and its outcome
    current_year,       \* datetime.now().year
    undeclared_attributes, \* what LearningResource does with an attribute it does not declare
    google_available,   \* HybridResourceFetcher.google_available
    daily_query_count,  \* HybridResourceFetcher.daily_query_count
    last_query_time,    \* HybridResourceFetcher.last_query_time
    current_time,       \* time.time(), in seconds
    day_start,          \* time of the first Google request of the running 24 hours
    day_requests,       \* Google requests issued since day_start
    last_fetch,         \* the last _fetch_*_with_fallback call: what it saw and did
    thread_pc,          \* per concurrent caller: its position in _fetch_articles_with_fallback
    thread_count,       \* per concurrent caller: the daily_query_count it loaded for += 1
    update_calls,       \* _update_query_count calls the concurrent callers completed
    fetches_started,    \* fetches the concurrent callers started
    state_num_objectives, \* LearningState.num_objectives
    user_topic,         \* LearningState.user_topic
    current_date,       \* LearningState.current_date
    preferences,        \* ConversationalLearningChatbot.preferences (the required fields)
    conversation_complete,  \* ConversationalLearningChatbot.conversation_complete
    user_ready_to_generate, \* ConversationalLearningChatbot.user_ready_to_generate
    memory              \* messages in ConversationalLearningChatbot.memory.chat_memory

graph_vars == <<tasks, task_writes, completion_order>>

hunter_vars == <<search_provider, num_queries, queries_done, results_in_query,
                 all_resources, search_failures>>

scorer_vars == <<learning_resource, resource_calls, score_log, current_year,
                 undeclared_attributes>>

fetcher_vars == <<google_available, daily_query_count, last_query_time,
                  current_time, day_start, day_requests, last_fetch>>

thread_vars == <<thread_pc, thread_count, update_calls, fetches_started>>

request_vars == <<state_num_objectives, user_topic, current_date>>

chatbot_vars == <<preferences, conversation_complete, user_ready_to_generate, memory>>

vars == <<pc, user_preferences, learning_objectives, objective_results,
          final_course, summarizer, hunter_vars, graph_vars, raised_in,
          objective_resources, scorer_vars, fetcher_vars, thread_vars,
          request_vars, chatbot_vars>>

-----------------------------------------------------------------------------
(* Bounds of the model *)

MaxObjectives == 5
MaxHits == 5           \* resources a hunter collects over all its queries
MaxTasks == 3          \* objectives the generator returns in a workflow run
MaxModules == 2        \* modules of a course structure the language model proposes

-----------------------------------------------------------------------------
(* Small helpers *)

Max(a, b) == IF a >= b THEN a ELSE b
Min(a, b) == IF a <= b THEN a ELSE b

RECURSIVE SumLen(_)
SumLen(seqs) ==
    IF seqs = <<>> THEN 0 ELSE Len(Head(seqs)) + SumLen(Tail(seqs))

RECURSIVE Concat(_)
Concat(seqs) ==
    IF seqs = <<>> THEN <<>> ELSE Head(seqs) \o Concat(Tail(seqs))

SeqsUpTo(S, n) == UNION { [1..k -> S] : k \in 0..n }

-----------------------------------------------------------------------------
(* The parts of the state a run of one component leaves alone *)

NoResource == [none |-> TRUE]
NoFetch == [kind |-> "none"]
NoThreads == <<>>

\* no QualityScorer call is followed
ScorerUnused ==
    /\ learning_resource = NoResource
    /\ resource_calls = 0
    /\ score_log = <<>>
    /\ current_year = 2026
    /\ undeclared_attributes = "rejected"

\* no HybridResourceFetcher call is followed
FetcherUnused ==
    /\ google_available = FALSE
    /\ daily_query_count = 0
    /\ last_query_time = 0
    /\ current_time = 1800000000
    /\ day_start = 0
    /\ day_requests = 0
    /\ last_fetch = NoFetch
    /\ thread_pc = NoThreads
    /\ thread_count = NoThreads
    /\ update_calls = 0
    /\ fetches_started = 0

\* LearningState(): the fields of the request at their defaults
RequestUnused ==
    /\ state_num_objectives = 6
    /\ user_topic = ""
    /\ current_date = ""

NoPreferences == [none |-> TRUE]

\* no ConversationalLearningChatbot is followed
ChatbotUnused ==
    /\ preferences = NoPreferences
    /\ conversation_complete = FALSE
    /\ user_ready_to_generate = FALSE
    /\ memory = 0

\* no workflow, hunter or generator run is followed
PipelineUnused ==
    /\ pc = "none"
    /\ user_preferences = [timeline |-> "1 month"]
    /\ learning_objectives = <<>>
    /\ objective_results = <<>>
    /\ final_course = [none |-> TRUE]
    /\ summarizer = "none"
    /\ search_provider = "configured"
    /\ num_queries = 0
    /\ queries_done = 0
    /\ results_in_query = 0
    /\ all_resources = <<>>
    /\ search_failures = 0
    /\ tasks = <<>>
    /\ task_writes = <<>>
    /\ completion_order = <<>>
    /\ raised_in = "none"
    /\ objective_resources = <<>>
    /\ RequestUnused

pipeline_vars == <<pc, user_preferences, learning_objectives, objective_results, final_course, summarizer, hunter_vars, graph_vars, raised_in, objective_resources, request_vars>>

NoCourse == [none |-> TRUE]
Absent == "<absent>"

-----------------------------------------------------------------------------
(* services/course_builder.py *)

\* the keys of the two timeline tables, an unrecognized value, and no entry
Timelines == {"1 week", "2 weeks", "1 month", "2 months", "3 months",
              "6+ months", "1 year", Absent}

\* prefs.get('timeline', '1 month')
prefs_timeline(prefs) ==
    IF prefs.timeline = Absent THEN "1 month" ELSE prefs.timeline

\* timeline_weeks.get(timeline, 4) of _organize_into_modules
target_modules(timeline) ==
    CASE timeline = "1 week"    -> 1
      [] timeline = "2 weeks"   -> 2
      [] timeline = "1 month"   -> 4
      [] timeline = "2 months"  -> 6
      [] timeline = "3 months"  -> 8
      [] timeline = "6+ months" -> 12
      [] OTHER                  -> 4

\* timeline_weeks.get(timeline, 4) of _estimate_module_time
total_weeks(timeline) ==
    CASE timeline = "1 week"    -> 1
      [] timeline = "2 weeks"   -> 2
      [] timeline = "1 month"   -> 4
      [] timeline = "2 months"  -> 8
      [] timeline = "3 months"  -> 12
      [] timeline = "6+ months" -> 24
      [] OTHER                  -> 4

estimate_module_time(resources, timeline, total_modules) ==
    LET weeks_per_module == Max(1, total_weeks(timeline) \div total_modules)
    IN  IF weeks_per_module = 1
        THEN <<1, "week">>
        ELSE <<weeks_per_module, "weeks">>

\* _create_module with "elif module_number <= 3": the third module is still
\* Intermediate
create_module_late_advanced(objectives, resources, module_number, timeline, target) ==
    [ title |-> IF module_number = 1 THEN <<module_number, "Fundamentals">>
                ELSE IF module_number <= 3
                     THEN <<module_number, "Core Concepts">>
                     ELSE <<module_number, "Advanced Applications">>,
      difficulty |-> IF module_number = 1 THEN "Beginner"
                     ELSE IF module_number <= 3 THEN "Intermediate"
                          ELSE "Advanced",
      estimated_time |-> estimate_module_time(resources, timeline, target),
      resources |-> resources,
      learning_objectives |-> objectives ]

create_module(objectives, resources, module_number, timeline, target) ==
    [ title |-> IF module_number = 1 THEN <<module_number, "Fundamentals">>
                ELSE IF module_number <= 2
                     THEN <<module_number, "Core Concepts">>
                     ELSE <<module_number, "Advanced Applications">>,
      difficulty |-> IF module_number = 1 THEN "Beginner"
                     ELSE IF module_number <= 2 THEN "Intermediate"
                          ELSE "Advanced",
      estimated_time |-> estimate_module_time(resources, timeline, target),
      resources |-> resources,
      learning_objectives |-> objectives ]

\* objectives_per_module without the two overrides
objectives_per_module_no_override(num_objectives, target) ==
    Max(1, num_objectives \div target)

objectives_per_module(num_objectives, target) ==
    IF num_objectives <= target THEN 1
    ELSE IF num_objectives > target * 2 THEN 2
         ELSE Max(1, num_objectives \div target)

\* organize_loop without the "or reach the end" test: a trailing partial module is lost
RECURSIVE organize_loop_drops_tail(_, _, _, _, _, _, _, _)
organize_loop_drops_tail(results, i, cur_objectives, cur_resources, modules, opm, timeline, target) ==
    IF i > Len(results) THEN modules
    ELSE LET objs == Append(cur_objectives, results[i].objective)
             res  == cur_resources \o results[i].resources
         IN  IF Len(objs) >= opm
             THEN organize_loop_drops_tail(results, i + 1, <<>>, <<>>,
                      Append(modules,
                             [ title |-> <<Len(modules) + 1, "Module">>,
                               difficulty |-> "Beginner",
                               estimated_time |-> <<1, "week">>,
                               resources |-> res,
                               learning_objectives |-> objs ]),
                      opm, timeline, target)
             ELSE organize_loop_drops_tail(results, i + 1, objs, res, modules,
                                           opm, timeline, target)

\* organize_loop without the reset of current_module_resources: a module also
\* gets the resources of the modules before it
RECURSIVE organize_loop_keeps_resources(_, _, _, _, _, _, _, _)
organize_loop_keeps_resources(results, i, cur_objectives, cur_resources, modules, opm, timeline, target) ==
    IF i > Len(results) THEN modules
    ELSE LET objs == Append(cur_objectives, results[i].objective)
             res  == cur_resources \o results[i].resources
         IN  IF Len(objs) >= opm \/ i = Len(results)
             THEN organize_loop_keeps_resources(results, i + 1, <<>>, res,
                      Append(modules,
                             create_module(objs, res, Len(modules) + 1,
                                           timeline, target)),
                      opm, timeline, target)
             ELSE organize_loop_keeps_resources(results, i + 1, objs, res, modules,
                                                opm, timeline, target)

\* the loop of _organize_into_modules from index i on
RECURSIVE organize_loop(_, _, _, _, _, _, _, _)
organize_loop(results, i, cur_objectives, cur_resources, modules, opm, timeline, target) ==
    IF i > Len(results) THEN modules
    ELSE LET objs == Append(cur_objectives, results[i].objective)
             res  == cur_resources \o results[i].resources
         IN  IF Len(objs) >= opm \/ i = Len(results)
             THEN organize_loop(results, i + 1, <<>>, <<>>,
                      Append(modules,
                             create_module(objs, res, Len(modules) + 1,
                                           timeline, target)),
                      opm, timeline, target)
             ELSE organize_loop(results, i + 1, objs, res, modules,
                                opm, timeline, target)

organize_into_modules(results, prefs) ==
    LET timeline == prefs_timeline(prefs)
        target   == target_modules(timeline)
        opm      == objectives_per_module(Len(results), target)
    IN  organize_loop(results, 1, <<>>, <<>>, <<>>, opm, timeline, target)

calculate_total_time(modules, timeline) == timeline

\* outcomes of llm.invoke(prompt) followed by json.loads(response.content)
SummarizerOutcomes == {"ok", "call_fails", "not_json", "missing_key", "not_object"}

\* _generate_course_overview: the parsed reply, or the fallback of the except
\* branch when the call or json.loads raised
generate_course_overview(outcome) ==
    CASE outcome = "ok" ->
            [kind |-> "object", keys |-> {"title", "description", "difficulty_progression"},
             from |-> "llm"]
      [] outcome = "missing_key" ->
            [kind |-> "object", keys |-> {"title", "description"}, from |-> "llm"]
      [] outcome = "not_object" ->
            [kind |-> "list", keys |-> {}, from |-> "llm"]
      [] OTHER ->
            [kind |-> "object", keys |-> {"title", "description", "difficulty_progression"},
             from |-> "fallback"]

\* course_overview["title"], ["description"], ["difficulty_progression"] all evaluate
overview_readable(overview) ==
    /\ overview.kind = "object"
    /\ {"title", "description", "difficulty_progression"} \subseteq overview.keys

\* counts the resources of the first module only
count_total_resources_first_module(modules) ==
    IF modules = <<>> THEN 0 ELSE Len(modules[1].resources)

\* sum(len(module.resources) for module in modules)
count_total_resources(modules) ==
    SumLen([k \in 1..Len(modules) |-> modules[k].resources])

\* the PersonalizedCourse build_personalized_course returns; "raised" when
\* reading the overview raises
build_personalized_course(results, prefs, outcome) ==
    LET modules  == organize_into_modules(results, prefs)
        overview == generate_course_overview(outcome)
    IN  IF overview_readable(overview)
        THEN [ raised |-> FALSE,
               course |-> [ overview |-> overview.from,
                            total_estimated_time |->
                                calculate_total_time(modules, prefs_timeline(prefs)),
                            modules |-> modules,
                            total_resources |-> count_total_resources(modules) ] ]
        ELSE [ raised |-> TRUE, course |-> NoCourse ]

\* the build_course node
build_course ==
    /\ pc = "gathered"
    /\ \E outcome \in SummarizerOutcomes :
         LET r == build_personalized_course(objective_results, user_preferences, outcome)
         IN  /\ summarizer' = outcome
             /\ final_course' = r.course
             /\ pc' = IF r.raised THEN "raised" ELSE "built"
             /\ raised_in' = IF r.raised THEN "build_course" ELSE raised_in
    /\ UNCHANGED <<user_preferences, learning_objectives, objective_results>>
    /\ UNCHANGED <<hunter_vars, graph_vars, objective_resources, scorer_vars, fetcher_vars, thread_vars, request_vars, chatbot_vars>>

-----------------------------------------------------------------------------
(* Inputs of the Course Assembler taken on their own *)

ResA == [url |-> "a", type |-> "video", relevance_score |-> 6]
ResB == [url |-> "b", type |-> "article", relevance_score |-> 4]

ObjectiveNames == {"o1", "o2"}

ObjectiveResultChoices ==
    [objective : ObjectiveNames, resources : {<<>>, <<ResA, ResB>>}]

InitBuilder ==
    /\ pc = "gathered"
    /\ user_preferences \in [timeline : Timelines]
    /\ objective_results \in SeqsUpTo(ObjectiveResultChoices, MaxObjectives)
    /\ learning_objectives =
         [k \in 1..Len(objective_results) |-> objective_results[k].objective]
    /\ final_course = NoCourse
    /\ summarizer = "none"
    /\ search_provider = "configured"
    /\ num_queries = 0
    /\ queries_done = 0
    /\ results_in_query = 0
    /\ all_resources = <<>>
    /\ search_failures = 0
    /\ tasks = <<>>
    /\ task_writes = <<>>
    /\ completion_order = <<>>
    /\ raised_in = "none"
    /\ objective_resources = <<>>
    /\ RequestUnused
    /\ ChatbotUnused
    /\ ScorerUnused
    /\ FetcherUnused

NextBuilder == build_course

SpecBuilder == InitBuilder /\ [][NextBuilder]_vars

Built == pc = "built"

ModuleObjectives(course) ==
    Concat([k \in 1..Len(course.modules) |-> course.modules[k].learning_objectives])

\* C1: the learning_objectives of the modules, concatenated in module order,
\* are exactly the objectives of the ObjectiveResult list given to the assembler
C1_ObjectiveCoverage ==
    Built => ModuleObjectives(final_course) =
                [k \in 1..Len(objective_results) |-> objective_results[k].objective]

C1_Witness ==
    /\ Built
    /\ Len(objective_results) = 5
    /\ Len(final_course.modules) = 3
    /\ objective_results[1].objective = objective_results[3].objective

\* C3: total_resources of a built course is the sum of the lengths of its
\* modules' resources, also when modules have no resources
C3_ResourceConservation ==
    Built => final_course.total_resources =
                Len(Concat([k \in 1..Len(final_course.modules) |->
                                final_course.modules[k].resources]))

C3_Witness ==
    /\ Built
    /\ final_course.total_resources = 4
    /\ \E k \in 1..Len(final_course.modules) : final_course.modules[k].resources = <<>>

\* C5: the number of modules is at most the target_modules of the timeline
C5_ModuleCountBound ==
    Built => Len(final_course.modules) <= target_modules(prefs_timeline(user_preferences))

\* the ObjectiveResults of places first..last of the list given to the assembler
ResultsFrom(first, last) ==
    [j \in 1..(last - first + 1) |-> objective_results[first + j - 1]]

\* C23: with opm = 1 when n <= target_modules, 2 when n > 2 * target_modules
\* and max(1, n // target_modules) otherwise, module m holds the objectives of
\* places (m-1)*opm+1 .. min(m*opm, n) of the list, in order, and the
\* resources of those objectives concatenated in order; three objectives with
\* timeline "1 month" give three modules of one objective each
C23_ConsecutiveGroups ==
    Built =>
        LET n      == Len(objective_results)
            target == target_modules(prefs_timeline(user_preferences))
            opm    == IF n <= target THEN 1
                      ELSE IF n > 2 * target THEN 2
                      ELSE Max(1, n \div target)
            group(m) == ResultsFrom((m - 1) * opm + 1, Min(m * opm, n))
        IN  /\ Len(final_course.modules) = (n + opm - 1) \div opm
            /\ \A m \in 1..Len(final_course.modules) :
                  /\ final_course.modules[m].learning_objectives =
                        [j \in 1..Len(group(m)) |-> group(m)[j].objective]
                  /\ final_course.modules[m].resources =
                        Concat([j \in 1..Len(group(m)) |-> group(m)[j].resources])
            /\ (n = 3 /\ user_preferences.timeline = "1 month") =>
                  /\ Len(final_course.modules) = 3
                  /\ \A m \in 1..3 : Len(final_course.modules[m].learning_objectives) = 1

C23_Witness ==
    /\ Built
    /\ Len(objective_results) = 5
    /\ user_preferences.timeline = "2 weeks"
    /\ Len(final_course.modules) = 3
    /\ Len(final_course.modules[3].learning_objectives) = 1
    /\ Len(final_course.modules[1].resources) = 2
    /\ Len(final_course.modules[2].resources) = 4

\* C24: every module's estimated_time is max(1, total_timeline_weeks //
\* module_count) weeks, module_count the number of modules of the course
C24_ModuleTimeByModuleCount ==
    Built =>
        \A m \in 1..Len(final_course.modules) :
            final_course.modules[m].estimated_time[1] =
                Max(1, total_weeks(prefs_timeline(user_preferences))
                         \div Len(final_course.modules))

\* C25: the first module is Beginner, the second Intermediate, every later
\* module Advanced
C25_DifficultyProgression ==
    Built =>
        \A m \in 1..Len(final_course.modules) :
            final_course.modules[m].difficulty =
                CASE m = 1 -> "Beginner"
                  [] m = 2 -> "Intermediate"
                  [] OTHER -> "Advanced"

C25_Witness ==
    /\ Built
    /\ Len(final_course.modules) = 5
    /\ final_course.modules[5].difficulty = "Advanced"

\* C28: with at least one objective, every module of the built course holds
\* one or two learning objectives
C28_OneOrTwoObjectives ==
    (Built /\ Len(objective_results) >= 1) =>
        /\ Len(final_course.modules) >= 1
        /\ \A m \in 1..Len(final_course.modules) :
              Len(final_course.modules[m].learning_objectives) \in {1, 2}

C28_Witness ==
    /\ Built
    /\ Len(objective_results) = 5
    /\ user_preferences.timeline = "1 week"
    /\ Len(final_course.modules) = 3
    /\ Len(final_course.modules[1].learning_objectives) = 2
    /\ Len(final_course.modules[3].learning_objectives) = 1

\* C13: whatever the summarizer does, build_personalized_course does not
\* raise: the course is built, and when the call failed or its reply is not an
\* object with title, description and difficulty_progression the course
\* carries the fallback overview
C13_SummarizerNeverFatal ==
    summarizer # "none" =>
        /\ raised_in # "build_course"
        /\ Built
        /\ summarizer # "ok" => final_course.overview = "fallback"

-----------------------------------------------------------------------------
(* services/educational_resource_finder.py *)

max_results == 3        \* max_results=3 of tavily_client.search
max_resources == 4      \* _select_best_resources(unique_resources, max_resources=4)
max_per_type == 2
min_relevance == 2      \* resource.relevance_score >= 2.0
relevance_cap == 10     \* min(score, 10.0)

VideoDomains  == {"youtube.com", "youtu.be", "vimeo.com"}
CourseDomains == {"coursera.org", "udemy.com", "edx.org", "khanacademy.org"}
DocTerms      == {"docs.", "documentation", "reference"}
ExcludedIndicators == {"forum", "discussion", "chat", "social"}

\* A url is <<host, page>>; UrlParts gives the substrings of it the code looks for
UrlParts(url) ==
    CASE url[1] = "youtube.com"       -> {"youtube.com"}
      [] url[1] = "coursera.org"      -> {"coursera.org"}
      [] url[1] = "docs.python.org"   -> {"docs."}
      [] url[1] = "forum.dev.to"      -> {"forum"}
      [] OTHER                        -> {}

determine_resource_type(url) ==
    IF UrlParts(url) \cap VideoDomains # {} THEN "video"
    ELSE IF UrlParts(url) \cap CourseDomains # {} THEN "course"
    ELSE IF UrlParts(url) \cap DocTerms # {} THEN "documentation"
    ELSE "article"

\* A search result carries its url and, of its title and content, the counts
\* _calculate_relevance takes: objective words found in the title, objective
\* words found in the content, educational terms found in the title
calculate_relevance(search_result) ==
    Min(2 * search_result.title_words + search_result.content_words
          + search_result.edu_terms, relevance_cap)

convert_to_learning_resource(search_result) ==
    [ url |-> search_result.url,
      type |-> determine_resource_type(search_result.url),
      relevance_score |-> calculate_relevance(search_result),
      quality_score |-> 0 ]

\* _is_educational_content without the test of the url
is_educational_content_floor_only(resource) ==
    resource.relevance_score >= min_relevance

is_educational_content(resource) ==
    IF UrlParts(resource.url) \cap ExcludedIndicators # {} THEN FALSE
    ELSE resource.relevance_score >= min_relevance

RECURSIVE remove_duplicates_from(_, _, _)
remove_duplicates_from(resources, seen_urls, unique_resources) ==
    IF resources = <<>> THEN unique_resources
    ELSE LET resource == Head(resources)
         IN  IF resource.url \notin seen_urls
             THEN remove_duplicates_from(Tail(resources), seen_urls \cup {resource.url}, Append(unique_resources, resource))
             ELSE remove_duplicates_from(Tail(resources), seen_urls, unique_resources)

\* no deduplication at all
remove_duplicates_keeps_all(resources) == resources

remove_duplicates(resources) == remove_duplicates_from(resources, {}, <<>>)

\* sorted(resources, key=relevance_score, reverse=True): stable, equal keys
\* keep their order
RECURSIVE insert_by_relevance(_, _)
insert_by_relevance(sorted, resource) ==
    IF sorted = <<>> THEN <<resource>>
    ELSE IF Head(sorted).relevance_score >= resource.relevance_score
         THEN <<Head(sorted)>> \o insert_by_relevance(Tail(sorted), resource)
         ELSE <<resource>> \o sorted

RECURSIVE sort_by_relevance_from(_, _)
sort_by_relevance_from(resources, sorted) ==
    IF resources = <<>> THEN sorted
    ELSE sort_by_relevance_from(Tail(resources), insert_by_relevance(sorted, Head(resources)))

sort_by_relevance(resources) == sort_by_relevance_from(resources, <<>>)

ResourceTypes == {"video", "article", "course", "documentation"}

InSeq(x, seq) == \E k \in 1..Len(seq) : seq[k] = x

\* the first loop without the per-type test: the best resources whatever their type
diversity_pass_ignores_type(sorted_resources, selected, type_counts, cap) ==
    SubSeq(sorted_resources, 1, Min(cap, Len(sorted_resources)))

\* first loop of _select_best_resources: at most max_per_type of each type
RECURSIVE diversity_pass(_, _, _, _)
diversity_pass(sorted_resources, selected, type_counts, cap) ==
    IF sorted_resources = <<>> \/ Len(selected) >= cap THEN selected
    ELSE LET resource == Head(sorted_resources)
         IN  IF type_counts[resource.type] < max_per_type
             THEN diversity_pass(Tail(sorted_resources), Append(selected, resource), [type_counts EXCEPT ![resource.type] = @ + 1], cap)
             ELSE diversity_pass(Tail(sorted_resources), selected, type_counts, cap)

\* no second loop: the slots the first loop left stay empty
fill_pass_skipped(sorted_resources, selected, remaining) == selected

\* second loop of _select_best_resources: fill the remaining slots
RECURSIVE fill_pass(_, _, _)
fill_pass(sorted_resources, selected, remaining) ==
    IF sorted_resources = <<>> \/ remaining <= 0 THEN selected
    ELSE LET resource == Head(sorted_resources)
         IN  IF ~InSeq(resource, selected)
             THEN fill_pass(Tail(sorted_resources), Append(selected, resource), remaining - 1)
             ELSE fill_pass(Tail(sorted_resources), selected, remaining)

select_best_resources(resources, cap) ==
    LET sorted_resources == sort_by_relevance(resources)
        selected == diversity_pass(sorted_resources, <<>>, [t \in ResourceTypes |-> 0], cap)
    IN  fill_pass(sorted_resources, selected, cap - Len(selected))

\* lines 52-60 of find_objective_resources
make_objective_result(objective, resources) ==
    [ objective |-> objective,
      resources |-> select_best_resources(remove_duplicates(resources), max_resources) ]

\* Search results the provider may return
Video1   == [url |-> <<"youtube.com", 1>>, title_words |-> 2, content_words |-> 1, edu_terms |-> 1]
Video1b  == [url |-> <<"youtube.com", 1>>, title_words |-> 1, content_words |-> 1, edu_terms |-> 1]
Video2   == [url |-> <<"youtube.com", 2>>, title_words |-> 2, content_words |-> 1, edu_terms |-> 1]
Video3   == [url |-> <<"youtube.com", 3>>, title_words |-> 2, content_words |-> 1, edu_terms |-> 1]
Article1 == [url |-> <<"medium.com", 1>>, title_words |-> 1, content_words |-> 1, edu_terms |-> 1]
Article1low == [url |-> <<"medium.com", 1>>, title_words |-> 0, content_words |-> 1, edu_terms |-> 0]
Course1  == [url |-> <<"coursera.org", 1>>, title_words |-> 4, content_words |-> 2, edu_terms |-> 1]
Doc1     == [url |-> <<"docs.python.org", 1>>, title_words |-> 1, content_words |-> 1, edu_terms |-> 1]
Forum1   == [url |-> <<"forum.dev.to", 1>>, title_words |-> 2, content_words |-> 1, edu_terms |-> 1]

SearchResults == {Video1, Video1b, Video2, Video3, Article1, Article1low, Course1, Doc1, Forum1}

\* the search provider: working, without an API key, or failing on every call
SearchProviderStates == {"configured", "unconfigured", "failing"}

\* tavily_client = TavilyClient(): raises without an API key, outside any try
hunter_start ==
    /\ pc = "hunter_start"
    /\ pc' = IF search_provider = "unconfigured" THEN "raised" ELSE "searching"
    /\ raised_in' = IF search_provider = "unconfigured" THEN "find_objective_resources" ELSE raised_in
    /\ UNCHANGED <<user_preferences, learning_objectives, objective_results, final_course, summarizer, hunter_vars, graph_vars, objective_resources, scorer_vars, fetcher_vars, thread_vars, request_vars, chatbot_vars>>

\* one result of the current search call goes through lines 43-46
search_result_handled ==
    /\ pc = "searching"
    /\ queries_done < num_queries
    /\ results_in_query < max_results
    /\ search_provider = "configured"
    /\ \E search_result \in SearchResults :
         LET resource == convert_to_learning_resource(search_result)
         IN  /\ all_resources' = IF is_educational_content(resource)
                                 THEN Append(all_resources, resource)
                                 ELSE all_resources
             /\ Len(all_resources') <= MaxHits
    /\ results_in_query' = results_in_query + 1
    /\ UNCHANGED <<pc, user_preferences, learning_objectives, objective_results, final_course, summarizer, search_provider, num_queries, queries_done, search_failures, graph_vars, raised_in, objective_resources, scorer_vars, fetcher_vars, thread_vars, request_vars, chatbot_vars>>

\* the results of the current search call are exhausted
search_query_done ==
    /\ pc = "searching"
    /\ queries_done < num_queries
    /\ search_provider = "configured"
    /\ queries_done' = queries_done + 1
    /\ results_in_query' = 0
    /\ UNCHANGED <<pc, user_preferences, learning_objectives, objective_results, final_course, summarizer, search_provider, num_queries, all_resources, search_failures, graph_vars, raised_in, objective_resources, scorer_vars, fetcher_vars, thread_vars, request_vars, chatbot_vars>>

\* the except branch missing: a search that raises ends the hunter
search_query_fails_raises ==
    /\ pc = "searching"
    /\ queries_done < num_queries
    /\ results_in_query = 0
    /\ pc' = "raised"
    /\ raised_in' = "find_objective_resources"
    /\ UNCHANGED <<user_preferences, learning_objectives, objective_results, final_course, summarizer, hunter_vars, graph_vars, objective_resources, scorer_vars, fetcher_vars, thread_vars, request_vars, chatbot_vars>>

\* tavily_client.search raises: the except branch logs and continues
search_query_fails ==
    /\ pc = "searching"
    /\ queries_done < num_queries
    /\ results_in_query = 0
    /\ queries_done' = queries_done + 1
    /\ search_failures' = search_failures + 1
    /\ UNCHANGED <<pc, user_preferences, learning_objectives, objective_results, final_course, summarizer, search_provider, num_queries, results_in_query, all_resources, graph_vars, raised_in, objective_resources, scorer_vars, fetcher_vars, thread_vars, request_vars, chatbot_vars>>

\* lines 52-64: the hunter returns {"objective_results": [objective_result]}
hunter_returns ==
    /\ pc = "searching"
    /\ queries_done = num_queries
    /\ objective_results' = <<make_objective_result(learning_objectives[1], all_resources)>>
    /\ pc' = "hunted"
    /\ UNCHANGED <<user_preferences, learning_objectives, final_course, summarizer, hunter_vars, graph_vars, raised_in, objective_resources, scorer_vars, fetcher_vars, thread_vars, request_vars, chatbot_vars>>

InitHunter ==
    /\ pc = "hunter_start"
    /\ user_preferences = [timeline |-> "1 month"]
    /\ learning_objectives = <<"o1">>
    /\ objective_results = <<>>
    /\ final_course = NoCourse
    /\ summarizer = "none"
    /\ search_provider \in SearchProviderStates
    /\ num_queries \in {2, 3}
    /\ queries_done = 0
    /\ results_in_query = 0
    /\ all_resources = <<>>
    /\ search_failures = 0
    /\ tasks = <<>>
    /\ task_writes = <<>>
    /\ completion_order = <<>>
    /\ raised_in = "none"
    /\ objective_resources = <<>>
    /\ RequestUnused
    /\ ChatbotUnused
    /\ ScorerUnused
    /\ FetcherUnused

NextHunter ==
    \/ hunter_start
    \/ search_result_handled
    \/ search_query_done
    \/ search_query_fails
    \/ hunter_returns

SpecHunter == InitHunter /\ [][NextHunter]_vars

Hunted == pc = "hunted"
Selected == objective_results[1].resources
Candidates == remove_duplicates(all_resources)

DistinctUrls(resources) ==
    \A i, j \in 1..Len(resources) : i # j => resources[i].url # resources[j].url

CountOfType(resources, t) ==
    Cardinality({k \in 1..Len(resources) : resources[k].type = t})

TypesOf(resources) == {resources[k].type : k \in 1..Len(resources)}

\* C6: no two resources of a returned ObjectiveResult have the same url
C6_UniqueUrls == Hunted => DistinctUrls(Selected)

C6_Witness ==
    /\ Hunted
    /\ Len(Selected) = 4
    /\ Len(all_resources) > Len(Candidates)

\* C7: with at least 3 resource types among the deduplicated candidates, no
\* type takes more than 2 slots of the result
C7_DiversityCap ==
    (Hunted /\ Cardinality(TypesOf(Candidates)) >= 3)
        => \A t \in ResourceTypes : CountOfType(Selected, t) <= 2

C7_Witness ==
    /\ Hunted
    /\ Cardinality(TypesOf(Candidates)) >= 3
    /\ CountOfType(Candidates, "video") = 3
    /\ CountOfType(Selected, "video") = 2

\* C8: relevance_score is non-increasing along the resources of a result
C8_BestFirst ==
    Hunted => \A k \in 1..(Len(Selected) - 1) :
                 Selected[k].relevance_score >= Selected[k + 1].relevance_score

\* C9: a result holds min(4, k) resources, k the number of distinct-url
\* candidates that passed the educational filter
C9_ResultSize ==
    Hunted => Len(Selected) =
                Min(4, Cardinality({all_resources[k].url : k \in 1..Len(all_resources)}))

C9_Witness ==
    /\ Hunted
    /\ Cardinality({all_resources[k].url : k \in 1..Len(all_resources)}) = 5
    /\ Len(Selected) = 4

\* C14: searches that raise do not end the hunter: with a client that could
\* be constructed the hunter never raises, and the ObjectiveResult it returns
\* is for its objective, holds only resources that the searches that succeeded
\* returned (at most max_results for each of them), and is empty when every
\* search raised
C14_SearchFailuresTolerated ==
    /\ search_provider # "unconfigured" => pc # "raised" /\ raised_in = "none"
    /\ search_failures <= queries_done
    /\ Len(all_resources) <= max_results * (queries_done + 1 - search_failures)
    /\ Hunted =>
         /\ Len(objective_results) = 1
         /\ objective_results[1].objective = learning_objectives[1]
         /\ \A i \in 1..Len(Selected) : InSeq(Selected[i], all_resources)
         /\ Len(all_resources) <= max_results * (num_queries - search_failures)
         /\ search_failures = num_queries => Selected = <<>>

C14_Witness ==
    /\ Hunted
    /\ search_provider = "configured"
    /\ num_queries = 3
    /\ search_failures = 2
    /\ Len(Selected) = 2

\* C26: every resource of an ObjectiveResult, and every candidate kept for it,
\* has a relevance_score from 2 to 10 and a url without forum, discussion,
\* chat or social in it
C26_RelevanceFloorAndSites ==
    LET acceptable(resource) ==
            /\ resource.relevance_score >= 2
            /\ resource.relevance_score <= 10
            /\ UrlParts(resource.url) \cap {"forum", "discussion", "chat", "social"} = {}
    IN  /\ \A k \in 1..Len(all_resources) : acceptable(all_resources[k])
        /\ Hunted => \A i \in 1..Len(Selected) : acceptable(Selected[i])

C26_Witness ==
    /\ Hunted
    /\ Len(Selected) = 4
    /\ Selected[1].relevance_score = 10
    /\ Selected[4].relevance_score = 4

\* the place of a resource in the order in which the searches returned the
\* candidates
ReturnOrder(resource) ==
    CHOOSE k \in 1..Len(Candidates) : Candidates[k] = resource

\* C27: of two resources of a result with equal relevance_score the one with
\* the higher quality_score comes first, and with equal quality_score too the
\* one the searches returned first
C27_TieBreakOrder ==
    Hunted =>
        \A i, j \in 1..Len(Selected) :
            (i < j /\ Selected[i].relevance_score = Selected[j].relevance_score) =>
                /\ Selected[i].quality_score >= Selected[j].quality_score
                /\ Selected[i].quality_score = Selected[j].quality_score
                      => ReturnOrder(Selected[i]) < ReturnOrder(Selected[j])

\* C22: of the candidates with one url exactly one survives deduplication,
\* and none of the others has a higher relevance_score than it, whatever the
\* order in which the searches returned them
C22_DuplicateKeepsBest ==
    Hunted =>
        \A k \in 1..Len(all_resources) :
            /\ Cardinality({i \in 1..Len(Candidates) : Candidates[i].url = all_resources[k].url}) = 1
            /\ \A i \in 1..Len(Candidates) :
                  Candidates[i].url = all_resources[k].url
                      => Candidates[i].relevance_score >= all_resources[k].relevance_score

-----------------------------------------------------------------------------
(* core/learning_graph.py: START -> generate_objectives -> one                *)
(* find_objective_resources task per Send -> build_course -> END              *)

\* the Send list built over learning_objectives[1:]: the first objective gets
\* no hunter
spawn_resource_hunters_skips_first(objectives, topic, prefs, date) ==
    [k \in 1..(Len(objectives) - 1) |->
        [ node |-> "find_objective_resources",
          objective |-> objectives[k + 1],
          user_topic |-> topic,
          user_preferences |-> prefs,
          current_date |-> date ]]

\* services/resource_hunter_spawner.py: one Send per objective, in list order
spawn_resource_hunters(objectives, topic, prefs, date) ==
    [k \in 1..Len(objectives) |->
        [ node |-> "find_objective_resources",
          objective |-> objectives[k],
          user_topic |-> topic,
          user_preferences |-> prefs,
          current_date |-> date ]]

\* the resources a hunter keeps of a list of search results (lines 43-46)
RECURSIVE educational_resources(_)
educational_resources(search_results) ==
    IF search_results = <<>> THEN <<>>
    ELSE LET resource == convert_to_learning_resource(Head(search_results))
         IN  IF is_educational_content(resource)
             THEN <<resource>> \o educational_resources(Tail(search_results))
             ELSE educational_resources(Tail(search_results))

\* find_objective_resources as one step of a task: what it returns for the
\* search results its queries produced
find_objective_resources(data, search_results) ==
    <<make_objective_result(data.objective, educational_resources(search_results))>>

\* the search results the queries of one task produce in a workflow run
TaskSearchResults ==
    { <<>>, <<Video1, Article1>>, <<Video1, Video2, Video3, Doc1, Video1b>> }

\* the writes of the tasks of a superstep are applied task by task in the
\* order of the Send list, each through the operator.add reducer of
\* LearningState.objective_results
RECURSIVE reduce_writes(_, _, _)
reduce_writes(value, writes, order) ==
    IF order = <<>> THEN value
    ELSE reduce_writes(value \o writes[Head(order)], writes, Tail(order))

\* the writes applied in the order the tasks finished
apply_writes_in_arrival_order(value, writes, finished) ==
    reduce_writes(value, writes, finished)

apply_writes(value, writes, finished) ==
    reduce_writes(value, writes, [k \in 1..Len(writes) |-> k])

WorkflowTimelines == {"1 week", "1 month", Absent}

\* num_objectives of the LearningState a run is started with: the field is an
\* int with default 6 and no validator
NumObjectivesGiven == {6, 13}

\* user_topic of the LearningState a run is started with
Topics == {"python"}

Finished(k) == \E j \in 1..Len(completion_order) : completion_order[j] = k

\* generate_learning_objectives, then the conditional edge that spawns the hunters
generate_objectives ==
    /\ pc = "start"
    /\ \/ /\ pc' = "raised"
          /\ raised_in' = "generate_objectives"
          /\ UNCHANGED <<learning_objectives, graph_vars>>
       \/ \E objectives \in SeqsUpTo(ObjectiveNames, MaxTasks) :
            /\ learning_objectives' = objectives
            /\ tasks' = spawn_resource_hunters(objectives, user_topic, user_preferences, current_date)
            /\ task_writes' = [k \in 1..Len(tasks') |-> <<>>]
            /\ completion_order' = <<>>
            /\ pc' = IF objectives = <<>> THEN "ended" ELSE "hunting"
            /\ UNCHANGED raised_in
    /\ UNCHANGED <<user_preferences, objective_results, final_course, summarizer, hunter_vars, objective_resources, scorer_vars, fetcher_vars, thread_vars, request_vars, chatbot_vars>>

\* one hunter task runs to its end
hunter_task(k) ==
    /\ pc = "hunting"
    /\ ~Finished(k)
    /\ \/ /\ search_provider = "unconfigured"
          /\ pc' = "raised"
          /\ raised_in' = "find_objective_resources"
          /\ UNCHANGED graph_vars
       \/ /\ search_provider # "unconfigured"
          /\ \E search_results \in TaskSearchResults :
               /\ search_provider = "failing" => search_results = <<>>
               /\ task_writes' = [task_writes EXCEPT ![k] = find_objective_resources(tasks[k], search_results)]
          /\ completion_order' = Append(completion_order, k)
          /\ UNCHANGED <<pc, raised_in, tasks>>
    /\ UNCHANGED <<user_preferences, learning_objectives, objective_results, final_course, summarizer, hunter_vars, objective_resources, scorer_vars, fetcher_vars, thread_vars, request_vars, chatbot_vars>>

\* the superstep of the hunter tasks closed without waiting for every task
fan_in_before_all_delivered ==
    /\ pc = "hunting"
    /\ objective_results' = apply_writes(objective_results, task_writes, completion_order)
    /\ pc' = "gathered"
    /\ UNCHANGED <<user_preferences, learning_objectives, final_course, summarizer, hunter_vars, graph_vars, raised_in, objective_resources, scorer_vars, fetcher_vars, thread_vars, request_vars, chatbot_vars>>

\* end of the superstep of the hunter tasks: their writes reach the state
fan_in ==
    /\ pc = "hunting"
    /\ \A k \in 1..Len(tasks) : Finished(k)
    /\ objective_results' = apply_writes(objective_results, task_writes, completion_order)
    /\ pc' = "gathered"
    /\ UNCHANGED <<user_preferences, learning_objectives, final_course, summarizer, hunter_vars, graph_vars, raised_in, objective_resources, scorer_vars, fetcher_vars, thread_vars, request_vars, chatbot_vars>>

Init ==
    /\ pc = "start"
    /\ user_preferences \in [timeline : WorkflowTimelines]
    /\ learning_objectives = <<>>
    /\ objective_results = <<>>
    /\ final_course = NoCourse
    /\ summarizer = "none"
    /\ search_provider \in SearchProviderStates
    /\ num_queries = 0
    /\ queries_done = 0
    /\ results_in_query = 0
    /\ all_resources = <<>>
    /\ search_failures = 0
    /\ tasks = <<>>
    /\ task_writes = <<>>
    /\ completion_order = <<>>
    /\ raised_in = "none"
    /\ objective_resources = <<>>
    /\ state_num_objectives \in NumObjectivesGiven
    /\ user_topic \in Topics
    /\ current_date = "2026-11-05"
    /\ ChatbotUnused
    /\ ScorerUnused
    /\ FetcherUnused

Next ==
    \/ generate_objectives
    \/ \E k \in 1..Len(tasks) : hunter_task(k)
    \/ fan_in
    \/ build_course

Spec == Init /\ [][Next]_vars

Gathered == pc \in {"gathered", "built"}

SearchUnavailable == search_provider \in {"unconfigured", "failing"}

\* C10: with the search provider unavailable no hunter step raises, and the
\* course that is built has every objective in a module
C10_GracefulDegradation ==
    SearchUnavailable =>
        /\ raised_in # "find_objective_resources"
        /\ Built => ModuleObjectives(final_course) = learning_objectives

\* the moves of pc that the graph of build_learning_graph allows: the three
\* stages in their order, and the ways a run ends before CourseBuilt
StageSteps ==
    { <<"start", "hunting">>, <<"hunting", "gathered">>, <<"gathered", "built">>,
      <<"start", "ended">>, <<"start", "raised">>, <<"hunting", "raised">>,
      <<"gathered", "raised">> }

AssemblerRan == summarizer # "none"

RunStopped == pc \in {"ended", "built"}

\* C12: whatever the length of the list the Objective Generator returns, one
\* hunter task is spawned per returned objective, and a run that is over
\* without an exception is at CourseBuilt with final_course set
C12_AnyLengthReachesCourseBuilt ==
    /\ pc \in {"hunting", "gathered", "built", "ended"} =>
          /\ Len(tasks) = Len(learning_objectives)
          /\ \A k \in 1..Len(tasks) : tasks[k].objective = learning_objectives[k]
    /\ RunStopped => Built /\ final_course # NoCourse

\* C21: the num_objectives the Objective Generator has been invoked with is
\* within [2, 12]
C21_NumObjectivesInRange ==
    pc # "start" => state_num_objectives \in 2..12

\* the Course Assembler has been started
AssemblerStarted == pc = "gathered" \/ AssemblerRan

\* C29: the Send list holds one hunter task per entry of learning_objectives,
\* in list order, each made of its own objective and the topic, preferences
\* and date of the state; and when the Course Assembler starts,
\* objective_results holds one ObjectiveResult per task, the one that task
\* returned
C29_OneTaskOneResult ==
    /\ pc # "start" /\ raised_in # "generate_objectives" =>
          /\ Len(tasks) = Len(learning_objectives)
          /\ \A k \in 1..Len(tasks) :
                tasks[k] = [ node |-> "find_objective_resources",
                             objective |-> learning_objectives[k],
                             user_topic |-> user_topic,
                             user_preferences |-> user_preferences,
                             current_date |-> current_date ]
    /\ AssemblerStarted =>
          /\ Len(objective_results) = Len(tasks)
          /\ \A k \in 1..Len(tasks) : Len(task_writes[k]) = 1
          /\ objective_results = [k \in 1..Len(tasks) |-> task_writes[k][1]]

C29_Witness ==
    /\ AssemblerStarted
    /\ learning_objectives = <<"o2", "o2", "o1">>
    /\ completion_order = <<2, 3, 1>>
    /\ Len(objective_results) = 3
    /\ objective_results[1] # objective_results[2]

-----------------------------------------------------------------------------
(* course_generator.py, objective_based_fetcher.py: the path main.py calls    *)

\* build_course_with_resources(course_data, resources) with resources = {}:
\* every resources.get(resource_type, []) is empty, so are the modules' resources
build_course_with_resources(module_objectives) ==
    LET modules == [k \in 1..Len(module_objectives) |->
                      [ title |-> <<k, "llm">>,
                        difficulty |-> "llm",
                        estimated_time |-> "llm",
                        resources |-> <<>>,
                        learning_objectives |-> module_objectives[k] ]]
    IN  [ overview |-> "llm",
          total_estimated_time |-> "llm",
          modules |-> modules,
          total_resources |-> SumLen([k \in 1..Len(modules) |-> modules[k].resources]) ]

\* create_fallback_course(preferences, resources) with resources = {}
create_fallback_course(goal_level) ==
    LET fallback_module(title, level) ==
            [ title |-> title, difficulty |-> level, estimated_time |-> "fixed",
              resources |-> <<>>,
              learning_objectives |-> <<<<title, 1>>, <<title, 2>>, <<title, 3>>>> ]
        modules == <<fallback_module("Foundations", "Beginner"),
                     fallback_module("Practical", "Intermediate")>>
                   \o (IF goal_level \in {"advanced", "expert"}
                       THEN <<fallback_module("Advanced", "Advanced")>> ELSE <<>>)
    IN  [ overview |-> "fallback",
          total_estimated_time |-> <<Len(modules), "weeks">>,
          modules |-> modules,
          total_resources |-> SumLen([k \in 1..Len(modules) |-> modules[k].resources]) ]

\* learning_objectives lists the language model gives the modules it proposes
ProposedObjectives == { <<>>, <<"o1">>, <<"o2">>, <<"o1", "o2">> }

\* generate_intelligent_course_structure(enhanced_preferences, {})
generate_intelligent_course_structure ==
    /\ pc = "generator_start"
    /\ \/ \E n \in 1..MaxModules : \E module_objectives \in [1..n -> ProposedObjectives] :
            final_course' = build_course_with_resources(module_objectives)
       \/ \E goal_level \in {"intermediate", "advanced"} :
            final_course' = create_fallback_course(goal_level)
    /\ pc' = "structured"
    /\ UNCHANGED <<user_preferences, learning_objectives, objective_results, summarizer, hunter_vars, graph_vars, raised_in, objective_resources, scorer_vars, fetcher_vars, thread_vars, request_vars, chatbot_vars>>

\* all_objectives of generate_course_with_real_resources, as the key set of
\* the dictionary fetch_resources_for_objectives fills
all_objectives(course) ==
    UNION { { course.modules[k].learning_objectives[j] :
                j \in 1..Len(course.modules[k].learning_objectives) } :
            k \in 1..Len(course.modules) }

\* scored_resources[:3] of one objective, sorted by relevance
FetchedLists == { <<>>, <<ResA, ResB>> }

\* fetch_resources_for_objectives(all_objectives, topic_category)
fetch_resources_for_objectives ==
    /\ pc = "structured"
    /\ objective_resources' \in [all_objectives(final_course) -> FetchedLists]
    /\ pc' = "fetched"
    /\ UNCHANGED <<user_preferences, learning_objectives, objective_results, final_course, summarizer, hunter_vars, graph_vars, raised_in, scorer_vars, fetcher_vars, thread_vars, request_vars, chatbot_vars>>

\* the resources assign_resources_to_modules gives one module
RECURSIVE module_resources(_, _)
module_resources(objectives, fetched) ==
    IF objectives = <<>> THEN <<>>
    ELSE LET objective == Head(objectives)
         IN  (IF objective \in DOMAIN fetched /\ fetched[objective] # <<>>
              THEN <<fetched[objective][1]>> ELSE <<>>)
             \o module_resources(Tail(objectives), fetched)

\* assign_resources_to_modules: module.resources is replaced in every module,
\* the other fields of the course are left as they are
assign_resources_to_modules(course, fetched) ==
    [course EXCEPT !.modules =
        [k \in 1..Len(course.modules) |->
            [course.modules[k] EXCEPT !.resources =
                module_resources(course.modules[k].learning_objectives, fetched)]]]

\* lines 56-88 of generate_course_with_real_resources
assign_and_return ==
    /\ pc = "fetched"
    /\ final_course' = assign_resources_to_modules(final_course, objective_resources)
    /\ pc' = "returned"
    /\ UNCHANGED <<user_preferences, learning_objectives, objective_results, summarizer, hunter_vars, graph_vars, raised_in, objective_resources, scorer_vars, fetcher_vars, thread_vars, request_vars, chatbot_vars>>

InitGenerator ==
    /\ pc = "generator_start"
    /\ user_preferences = [timeline |-> "1 month"]
    /\ learning_objectives = <<>>
    /\ objective_results = <<>>
    /\ final_course = NoCourse
    /\ summarizer = "none"
    /\ search_provider = "configured"
    /\ num_queries = 0
    /\ queries_done = 0
    /\ results_in_query = 0
    /\ all_resources = <<>>
    /\ search_failures = 0
    /\ tasks = <<>>
    /\ task_writes = <<>>
    /\ completion_order = <<>>
    /\ raised_in = "none"
    /\ objective_resources = <<>>
    /\ RequestUnused
    /\ ChatbotUnused
    /\ ScorerUnused
    /\ FetcherUnused

NextGenerator ==
    \/ generate_intelligent_course_structure
    \/ fetch_resources_for_objectives
    \/ assign_and_return

SpecGenerator == InitGenerator /\ [][NextGenerator]_vars

-----------------------------------------------------------------------------
(* quality_scorer.py: QualityScorer                                           *)

MaxCalls == 2          \* score_resource calls that are followed
MaxYearsPassed == 1    \* new years that pass while they are followed

\* A text field is modelled by the listed phrases that occur in its lower-cased
\* form and by the numbers of four digits it shows, in their order. Scores are
\* in hundredths (10.0 is 1000), weights in hundredths (0.4 is 40).
Text(phrases, numbers) == [phrases |-> phrases, numbers |-> numbers]

\* any(phrase in text.lower() for phrase in phrases)
mentions_any(text, phrases) == text.phrases \cap phrases # {}

\* the fields the LearningResource model declares
declared_fields ==
    { "type", "title", "url", "description", "source", "estimated_time",
      "difficulty", "relevance_score", "quality_score", "objective_match" }

\* resource.<name> = value goes through: a pydantic model takes a declared
\* field, and an undeclared attribute only if the library accepts it (without
\* extra = "allow" BaseModel.__setattr__ raises ValueError)
can_set_attribute(name, undeclared) ==
    name \in declared_fields \/ undeclared = "accepted"

official_marks == {".gov", ".edu", "official", "docs."}

recognized_organizations ==
    { "nike", "adidas", "under armour", "crossfit", "ace", "nasm", "acsm",
      "yoga alliance", "yoga journal", "doyogawithme", "yoga international",
      "headspace", "calm", "insight timer", "mindful.org",
      "who", "usda", "academy of nutrition", "harvard health",
      "apa", "nami", "mayo clinic", "who mental health" }

established_platforms ==
    {"coursera", "edx", "khan academy", "masterclass", "skillshare", "udemy"}

professional_keywords ==
    {"association", "institute", "foundation", "certified", "accredited"}

popular_platforms == {"medium", "dev.to", "youtube", "reddit"}

\* _score_credibility: the tier it writes to resource.source_credibility and
\* the score it returns
score_credibility(res, topic_category) ==
    IF mentions_any(res.url, official_marks)
    THEN [source_credibility |-> "official", score |-> 1000]
    ELSE IF /\ topic_category = "health_wellness"
            /\ \/ mentions_any(res.source, recognized_organizations)
               \/ mentions_any(res.url, recognized_organizations)
    THEN [source_credibility |-> "recognized", score |-> 900]
    ELSE IF \/ mentions_any(res.source, established_platforms)
            \/ mentions_any(res.url, established_platforms)
    THEN [source_credibility |-> "established", score |-> 800]
    ELSE IF mentions_any(res.source, professional_keywords)
    THEN [source_credibility |-> "professional", score |-> 700]
    ELSE IF \/ mentions_any(res.source, popular_platforms)
            \/ mentions_any(res.url, popular_platforms)
    THEN [source_credibility |-> "popular", score |-> 600]
    ELSE [source_credibility |-> "community", score |-> 500]

\* _score_engagement
score_engagement(res) ==
    CASE res.type = "video" ->
            IF mentions_any(res.title, {"tutorial", "guide", "how to", "learn"})
            THEN 800 ELSE 700
      [] res.type = "course" ->
            IF mentions_any(res.description, {"comprehensive", "complete"})
            THEN 900 ELSE 800
      [] res.type = "article" ->
            IF mentions_any(res.title, {"complete", "comprehensive", "ultimate"})
            THEN 800
            ELSE IF mentions_any(res.title, {"tutorial", "guide", "how to"})
            THEN 700 ELSE 600
      [] OTHER -> 500

\* _score_depth
score_depth(res) ==
    IF \/ mentions_any(res.title, {"complete", "comprehensive", "full", "ultimate", "master"})
       \/ mentions_any(res.description, {"complete", "comprehensive", "full", "ultimate", "master"})
    THEN 1000
    ELSE IF mentions_any(res.title, {"series", "collection", "part", "episode"})
    THEN 800
    ELSE IF mentions_any(res.title, {"tutorial", "guide", "how to", "learn"})
    THEN 600
    ELSE IF mentions_any(res.title, {"tip", "quick", "basics", "intro"})
    THEN 400
    ELSE 500

\* re.findall(r'\b(20[12]\d)\b', title_lower + ' ' + description_lower)
find_years(res) ==
    SelectSeq(res.title.numbers \o res.description.numbers,
              LAMBDA n : 2010 <= n /\ n <= 2029)

\* _score_recency; year is datetime.now().year, source_credibility the
\* attribute _score_credibility wrote in the same call
score_recency(res, source_credibility, year) ==
    LET years == find_years(res)
    IN  IF years # <<>>
        THEN IF years[1] = year THEN 1000
             ELSE IF years[1] >= year - 2 THEN 800
             ELSE IF years[1] >= year - 5 THEN 600
             ELSE 400
        ELSE IF source_credibility \in {"official", "recognized", "established"}
             THEN 700
             ELSE 500

\* _get_safety_warnings
get_safety_warnings(res, topic_category) ==
    CASE topic_category = "health_wellness" ->
            IF mentions_any(res.title, {"exercise", "workout", "fitness", "yoga"})
            THEN <<"Consult your doctor">>
            ELSE IF mentions_any(res.title, {"meditation", "mental health", "therapy"})
            THEN <<"Not a substitute for medical advice">>
            ELSE IF mentions_any(res.title, {"nutrition", "diet", "supplements"})
            THEN <<"Consult a healthcare provider">>
            ELSE <<>>
      [] topic_category = "technical" ->
            IF mentions_any(res.title, {"database", "server", "production"})
            THEN <<"Backup your data">>
            ELSE IF mentions_any(res.title, {"security", "authentication"})
            THEN <<"Test in a safe environment">>
            ELSE <<>>
      [] topic_category = "creative" ->
            IF mentions_any(res.title, {"painting", "art", "crafts"})
            THEN <<"Use appropriate materials">>
            ELSE <<>>
      [] OTHER -> <<>>

\* (credibility_score * 0.4) + (engagement_score * 0.25) + (depth_score * 0.2)
\* + (recency_score * 0.15), in ten-thousandths
weighted_total(credibility, engagement, depth, recency) ==
    40 * credibility + 25 * engagement + 20 * depth + 15 * recency

\* round(x, 2): ten-thousandths to the nearest hundredth
round2(x) == (x + 50) \div 100

\* score_resource: raises at the first attribute it cannot set (the
\* resource.source_credibility of _score_credibility, before any score is
\* stored), else returns the resource with its scores
score_resource(res, topic_category, year, undeclared) ==
    LET credibility == score_credibility(res, topic_category)
        engagement_score == score_engagement(res)
        depth_score == score_depth(res)
        recency_score == score_recency(res, credibility.source_credibility, year)
        total_score == weighted_total(credibility.score, engagement_score,
                                      depth_score, recency_score)
    IN  IF ~can_set_attribute("source_credibility", undeclared)
        THEN [raised |-> TRUE, resource |-> res]
        ELSE [raised |-> FALSE,
              resource |->
                [res EXCEPT
                   !.quality_score = round2(total_score),
                   !.extra = << [ source_credibility |-> credibility.source_credibility,
                                  credibility_score |-> round2(100 * credibility.score),
                                  engagement_score |-> round2(100 * engagement_score),
                                  depth_score |-> round2(100 * depth_score),
                                  recency_score |-> round2(100 * recency_score),
                                  safety_warnings |-> get_safety_warnings(res, topic_category),
                                  topic_category |-> topic_category ] >>]]

\* LearningResource(type=..., title=..., url=..., description=..., source=...)
LearningResource(type, title, url, description, source) ==
    [ type |-> type, title |-> title, url |-> url, description |-> description,
      source |-> source, quality_score |-> 0, extra |-> <<>> ]

EduGuide ==
    LearningResource("article", Text({"guide"}, <<>>), Text({".edu"}, <<>>),
                     Text({}, <<>>), Text({}, <<>>))
CourseraCourse ==
    LearningResource("course", Text({"complete"}, <<2026>>), Text({"coursera"}, <<>>),
                     Text({"comprehensive"}, <<>>), Text({"coursera"}, <<>>))
YogaVideo ==
    LearningResource("video", Text({"yoga", "tutorial"}, <<>>), Text({"youtube"}, <<>>),
                     Text({}, <<>>), Text({"yoga journal"}, <<>>))
BlogPost ==
    LearningResource("article", Text({"tip", "database"}, <<>>), Text({}, <<>>),
                     Text({}, <<1999, 2019>>), Text({}, <<>>))
InstituteSeries ==
    LearningResource("tool", Text({"series", "security"}, <<2024>>), Text({}, <<>>),
                     Text({}, <<2026>>), Text({"institute"}, <<>>))

ScorerResources == {EduGuide, CourseraCourse, YogaVideo, BlogPost, InstituteSeries}

TopicCategories == {"", "health_wellness", "technical"}

\* the fields of a resource that score_resource reads and does not write
text_fields(res) ==
    [ type |-> res.type, title |-> res.title, url |-> res.url,
      description |-> res.description, source |-> res.source ]

\* the scores and warnings a scored resource carries
scores_of(res) ==
    [ quality_score |-> res.quality_score,
      credibility_score |-> res.extra[1].credibility_score,
      engagement_score |-> res.extra[1].engagement_score,
      depth_score |-> res.extra[1].depth_score,
      recency_score |-> res.extra[1].recency_score,
      safety_warnings |-> res.extra[1].safety_warnings ]

\* a caller constructs a LearningResource
new_resource ==
    /\ pc = "scoring"
    /\ Len(score_log) < MaxCalls
    /\ resource_calls > 0
    /\ learning_resource' \in ScorerResources
    /\ resource_calls' = 0
    /\ UNCHANGED <<score_log, current_year, undeclared_attributes, pipeline_vars, fetcher_vars, thread_vars, chatbot_vars>>

\* a caller calls score_resource(resource, topic_category)
score_resource_call ==
    /\ pc = "scoring"
    /\ Len(score_log) < MaxCalls
    /\ \E topic_category \in TopicCategories :
         LET r == score_resource(learning_resource, topic_category, current_year,
                                 undeclared_attributes)
         IN  /\ learning_resource' = r.resource
             /\ score_log' = Append(score_log,
                   [ text |-> text_fields(learning_resource),
                     topic_category |-> topic_category,
                     year |-> current_year,
                     again |-> resource_calls > 0,
                     raised |-> r.raised,
                     scores |-> IF r.raised THEN <<>> ELSE <<scores_of(r.resource)>> ])
    /\ resource_calls' = resource_calls + 1
    /\ UNCHANGED <<current_year, undeclared_attributes, pipeline_vars, fetcher_vars, thread_vars, chatbot_vars>>

\* a new year begins
year_passes ==
    /\ pc = "scoring"
    /\ current_year < 2026 + MaxYearsPassed
    /\ current_year' = current_year + 1
    /\ UNCHANGED <<learning_resource, resource_calls, score_log, undeclared_attributes, pipeline_vars, fetcher_vars, thread_vars, chatbot_vars>>

InitScorer ==
    /\ pc = "scoring"
    /\ user_preferences = [timeline |-> "1 month"]
    /\ learning_objectives = <<>>
    /\ objective_results = <<>>
    /\ final_course = NoCourse
    /\ summarizer = "none"
    /\ search_provider = "configured"
    /\ num_queries = 0
    /\ queries_done = 0
    /\ results_in_query = 0
    /\ all_resources = <<>>
    /\ search_failures = 0
    /\ tasks = <<>>
    /\ task_writes = <<>>
    /\ completion_order = <<>>
    /\ raised_in = "none"
    /\ objective_resources = <<>>
    /\ RequestUnused
    /\ ChatbotUnused
    /\ learning_resource \in ScorerResources
    /\ resource_calls = 0
    /\ score_log = <<>>
    /\ current_year = 2026
    /\ undeclared_attributes \in {"rejected", "accepted"}
    /\ FetcherUnused

NextScorer ==
    \/ new_resource
    \/ score_resource_call
    \/ year_passes

SpecScorer == InitScorer /\ [][NextScorer]_vars

\* the values the four scores can take
CredibilityTiers == {1000, 900, 800, 700, 600, 500}
EngagementTiers == {900, 800, 700, 600, 500}
DepthTiers == {1000, 800, 600, 500, 400}
RecencyTiers == {1000, 800, 700, 600, 500, 400}

CourseResources ==
    Concat([m \in 1..Len(final_course.modules) |-> final_course.modules[m].resources])

\* C15: every resource of the course that is built has a quality_score
\* between 0 and 10 that is the weighted sum 0.4, 0.25, 0.2, 0.15 of a
\* credibility, an engagement, a depth and a recency score of the scorer,
\* rounded to hundredths
C15_QualityScoreFormula ==
    Built =>
        \A i \in 1..Len(CourseResources) :
            LET q == CourseResources[i].quality_score
            IN  /\ 0 <= q /\ q <= 1000
                /\ \E c \in CredibilityTiers, e \in EngagementTiers,
                      d \in DepthTiers, r \in RecencyTiers :
                        q = round2(weighted_total(c, e, d, r))

\* C16: score_resource returns the resource with its scores, and a second
\* call on the returned resource with the same topic_category returns the
\* same five scores and the same safety warnings
C16_RescoringIdempotent ==
    \A k \in 1..Len(score_log) :
        /\ ~score_log[k].raised
        /\ (k > 1 /\ score_log[k].again
                  /\ score_log[k].topic_category = score_log[k - 1].topic_category)
              => score_log[k].scores = score_log[k - 1].scores

-----------------------------------------------------------------------------
(* hybrid_resource_fetcher.py: HybridResourceFetcher, its Google Search budget *)

max_daily_queries == 50
Day == 86400           \* seconds in 24 hours

MaxClockSteps == 2     \* times the clock is seen to advance
MaxThreads == 2        \* concurrent callers of one fetcher
MaxFetches == 6        \* fetches the concurrent callers start in all

\* the clock is seen to advance by 24 hours at a time
ClockStep == Day

\* _can_make_query with the count it has been asked to ignore
can_make_query_ignores_budget(count, last, now) == TRUE

\* _can_make_query: the daily_query_count it leaves behind (0 when more than
\* 24 hours have passed since last_query_time)
count_after_check(count, last, now) ==
    IF now - last > Day THEN 0 ELSE count

\* _can_make_query: its answer
can_make_query(count, last, now) ==
    count_after_check(count, last, now) < max_daily_queries

\* what the query loop of _fetch_articles_google_search (search_queries[:2])
\* and of _fetch_courses_google_search (two queries) can do: an exception in
\* its first round (from .execute() or from handling the items), two rounds
\* that leave nothing to return (no usable item, or an exception in the
\* second round), or items
GoogleOutcomes == {"raises_in_first_query", "nothing", "items"}

\* cse().list(...).execute() calls made by one run of that loop
requests_issued(google) == IF google = "raises_in_first_query" THEN 1 ELSE 2

\* web_scraper.scrape_educational_articles / scrape_educational_courses
ScraperOutcomes == {"raises", "nothing", "found"}

\* _fallback_articles, _fallback_courses: the scraper's list, [] when it is
\* empty or the scraper raised
fallback(scraper) ==
    [raised |-> FALSE, returned |-> IF scraper = "found" THEN "scraper" ELSE "empty"]

\* _fetch_articles_with_fallback, _fetch_courses_with_fallback: the Google
\* requests made, the counters left behind, and the list returned
fetch_with_fallback(available, count, last, now, google, scraper) ==
    IF ~available
    THEN [requests |-> 0, count |-> count, last |-> last] @@ fallback(scraper)
    ELSE IF ~can_make_query(count, last, now)
    THEN [requests |-> 0, count |-> count_after_check(count, last, now), last |-> last]
            @@ fallback(scraper)
    ELSE [requests |-> requests_issued(google),
          count |-> count_after_check(count, last, now) + 1,
          last |-> now]
            @@ (IF google = "items"
                THEN [raised |-> FALSE, returned |-> "google"]
                ELSE fallback(scraper))

\* one call of a _fetch_*_with_fallback method, start to end
fetch_call(kind) ==
    /\ pc = "fetching"
    /\ \E google \in GoogleOutcomes, scraper \in ScraperOutcomes :
         LET used == google_available /\ can_make_query(daily_query_count, last_query_time, current_time)
             f == fetch_with_fallback(google_available, daily_query_count,
                                      last_query_time, current_time, google, scraper)
             same_day == day_requests > 0 /\ current_time - day_start < Day
         IN  /\ daily_query_count' = f.count
             /\ last_query_time' = f.last
             /\ day_start' = IF f.requests = 0 \/ same_day THEN day_start ELSE current_time
             /\ day_requests' = IF f.requests = 0 THEN day_requests
                                ELSE IF same_day THEN day_requests + f.requests
                                ELSE f.requests
             /\ last_fetch' = [ kind |-> kind,
                                available |-> google_available,
                                count_before |-> daily_query_count,
                                new_day |-> current_time - last_query_time > Day,
                                requests |-> f.requests,
                                scraper |-> IF used /\ google = "items" THEN "not called" ELSE scraper,
                                returned |-> f.returned,
                                raised |-> f.raised ]
    /\ UNCHANGED <<google_available, current_time, pipeline_vars, scorer_vars, thread_vars, chatbot_vars>>

fetch_articles_with_fallback == fetch_call("articles")

fetch_courses_with_fallback == fetch_call("courses")

\* time passes between two calls
time_passes ==
    /\ pc = "fetching"
    /\ current_time + ClockStep <= 1800000000 + MaxClockSteps * ClockStep
    /\ current_time' = current_time + ClockStep
    /\ UNCHANGED <<google_available, daily_query_count, last_query_time, day_start, day_requests, last_fetch, pipeline_vars, scorer_vars, thread_vars, chatbot_vars>>

\* HybridResourceFetcher(): google_available by the environment, counters 0
InitFetcher ==
    /\ pc = "fetching"
    /\ user_preferences = [timeline |-> "1 month"]
    /\ learning_objectives = <<>>
    /\ objective_results = <<>>
    /\ final_course = NoCourse
    /\ summarizer = "none"
    /\ search_provider = "configured"
    /\ num_queries = 0
    /\ queries_done = 0
    /\ results_in_query = 0
    /\ all_resources = <<>>
    /\ search_failures = 0
    /\ tasks = <<>>
    /\ task_writes = <<>>
    /\ completion_order = <<>>
    /\ raised_in = "none"
    /\ objective_resources = <<>>
    /\ RequestUnused
    /\ ChatbotUnused
    /\ ScorerUnused
    /\ google_available \in BOOLEAN
    /\ daily_query_count = 0
    /\ last_query_time = 0
    /\ current_time = 1800000000
    /\ day_start = 0
    /\ day_requests = 0
    /\ last_fetch = NoFetch
    /\ thread_pc = NoThreads
    /\ thread_count = NoThreads
    /\ update_calls = 0
    /\ fetches_started = 0

NextFetcher ==
    \/ fetch_articles_with_fallback
    \/ fetch_courses_with_fallback
    \/ time_passes

SpecFetcher == InitFetcher /\ [][NextFetcher]_vars

\* C18: the Google requests issued within 24 hours never exceed
\* max_daily_queries
C18_DailyBudget == day_requests <= max_daily_queries

Fetched == last_fetch.kind # "none"

\* the call made no Google request, left daily_query_count as it was, did not
\* raise and returned the scraper's list, empty when the scraper failed
NoGoogleUse ==
    /\ last_fetch.requests = 0
    /\ daily_query_count = last_fetch.count_before
    /\ ~last_fetch.raised
    /\ last_fetch.returned = IF last_fetch.scraper = "found" THEN "scraper" ELSE "empty"

\* C19 as stated: a call made with Google Search unconfigured or with
\* daily_query_count at max_daily_queries makes no Google request, leaves the
\* count, does not raise and returns the scraper's list
C19_NoRequestOnceCountReached ==
    ( /\ Fetched
      /\ \/ ~last_fetch.available
         \/ last_fetch.count_before >= max_daily_queries )
        => NoGoogleUse

\* C19 amended: the same, for a call made with Google Search unconfigured or
\* with daily_query_count at max_daily_queries no more than 24 hours after
\* the last counted query
C19_NoRequestWhileBudgetSpent ==
    ( /\ Fetched
      /\ \/ ~last_fetch.available
         \/ /\ last_fetch.count_before >= max_daily_queries
            /\ ~last_fetch.new_day )
        => NoGoogleUse

C19_Witness ==
    /\ Fetched
    /\ last_fetch.kind = "courses"
    /\ last_fetch.available
    /\ last_fetch.count_before = max_daily_queries
    /\ ~last_fetch.new_day
    /\ last_fetch.scraper = "raises"
    /\ last_fetch.returned = "empty"

-----------------------------------------------------------------------------
(* One HybridResourceFetcher called by several threads at once: each thread  *)
(* runs _fetch_articles_with_fallback; a thread switch can come between any  *)
(* two of its reads and writes of the fetcher's attributes                   *)

Threads == 1..MaxThreads

\* lines 218-225: not configured, or _can_make_query says no: the fallback
thread_falls_back(t) ==
    /\ pc = "threads"
    /\ thread_pc[t] = "idle"
    /\ fetches_started < MaxFetches
    /\ \/ ~google_available
       \/ ~can_make_query(daily_query_count, last_query_time, current_time)
    /\ daily_query_count' =
         IF google_available
         THEN count_after_check(daily_query_count, last_query_time, current_time)
         ELSE daily_query_count
    /\ fetches_started' = fetches_started + 1
    /\ UNCHANGED <<google_available, last_query_time, current_time, day_start, day_requests, last_fetch, thread_pc, thread_count, update_calls, pipeline_vars, scorer_vars, chatbot_vars>>

\* lines 218-229: configured and _can_make_query says yes
thread_passes_check(t) ==
    /\ pc = "threads"
    /\ thread_pc[t] = "idle"
    /\ fetches_started < MaxFetches
    /\ google_available
    /\ can_make_query(daily_query_count, last_query_time, current_time)
    /\ daily_query_count' =
         count_after_check(daily_query_count, last_query_time, current_time)
    /\ thread_pc' = [thread_pc EXCEPT ![t] = "checked"]
    /\ fetches_started' = fetches_started + 1
    /\ UNCHANGED <<google_available, last_query_time, current_time, day_start, day_requests, last_fetch, thread_count, update_calls, pipeline_vars, scorer_vars, chatbot_vars>>

\* _update_query_count, line 546: self.daily_query_count is loaded
thread_loads_count(t) ==
    /\ pc = "threads"
    /\ thread_pc[t] = "checked"
    /\ thread_count' = [thread_count EXCEPT ![t] = daily_query_count]
    /\ thread_pc' = [thread_pc EXCEPT ![t] = "loaded"]
    /\ UNCHANGED <<fetcher_vars, update_calls, fetches_started, pipeline_vars, scorer_vars, chatbot_vars>>

\* _update_query_count, lines 546-547: the sum is stored, then
\* last_query_time; the thread goes on to its requests
thread_stores_count(t) ==
    /\ pc = "threads"
    /\ thread_pc[t] = "loaded"
    /\ daily_query_count' = thread_count[t] + 1
    /\ last_query_time' = current_time
    /\ update_calls' = update_calls + 1
    /\ thread_pc' = [thread_pc EXCEPT ![t] = "idle"]
    /\ thread_count' = [thread_count EXCEPT ![t] = 0]
    /\ UNCHANGED <<google_available, current_time, day_start, day_requests, last_fetch, fetches_started, pipeline_vars, scorer_vars, chatbot_vars>>

InitConcurrentFetcher ==
    /\ pc = "threads"
    /\ user_preferences = [timeline |-> "1 month"]
    /\ learning_objectives = <<>>
    /\ objective_results = <<>>
    /\ final_course = NoCourse
    /\ summarizer = "none"
    /\ search_provider = "configured"
    /\ num_queries = 0
    /\ queries_done = 0
    /\ results_in_query = 0
    /\ all_resources = <<>>
    /\ search_failures = 0
    /\ tasks = <<>>
    /\ task_writes = <<>>
    /\ completion_order = <<>>
    /\ raised_in = "none"
    /\ objective_resources = <<>>
    /\ RequestUnused
    /\ ChatbotUnused
    /\ ScorerUnused
    /\ google_available \in BOOLEAN
    /\ daily_query_count = 0
    /\ last_query_time = 0
    /\ current_time = 1800000000
    /\ day_start = 0
    /\ day_requests = 0
    /\ last_fetch = NoFetch
    /\ thread_pc = [t \in Threads |-> "idle"]
    /\ thread_count = [t \in Threads |-> 0]
    /\ update_calls = 0
    /\ fetches_started = 0

NextConcurrentFetcher ==
    \E t \in Threads :
        \/ thread_falls_back(t)
        \/ thread_passes_check(t)
        \/ thread_loads_count(t)
        \/ thread_stores_count(t)

SpecConcurrentFetcher == InitConcurrentFetcher /\ [][NextConcurrentFetcher]_vars

\* C20: under every interleaving of the callers daily_query_count stays
\* within max_daily_queries and equals the number of _update_query_count
\* calls completed, so no increment is lost
C20_AtomicBudget ==
    /\ daily_query_count <= max_daily_queries
    /\ daily_query_count = update_calls

-----------------------------------------------------------------------------
(* chatbot.py: ConversationalLearningChatbot                                  *)

MaxMessages == 4       \* messages the conversation memory is seen to take

\* the fields LearningPreferences.is_complete reads
required_fields == {"topic", "current_level", "goal_level", "timeline", "purpose"}

\* values of a str field: empty (the default), blank, or some text
FieldValues == {"", " ", "text"}

\* str.strip() on those values
strip(value) == IF value = " " THEN "" ELSE value

LearningPreferences == [required_fields -> FieldValues]

\* LearningPreferences.is_complete
is_complete(prefs) == \A field \in required_fields : strip(prefs[field]) # ""

\* what chat_turn looks for in user_input.lower(): a word of
\* generate_keywords, of course_keywords, of ready_keywords
UserInputs == SUBSET {"generate", "course", "ready"}

wants_course(user_input) ==
    \/ "generate" \in user_input /\ "course" \in user_input
    \/ "ready" \in user_input

\* extract_preferences_from_input: the preferences the language model's reply
\* parses to, or self.preferences when the call or the parsing raised
extract_preferences_from_input(current, outcome, reply) ==
    IF outcome = "error" THEN current ELSE reply

\* chat_turn(user_input); the language model may fail in
\* generate_contextual_response, after self.preferences was assigned
chat_turn(user_input) ==
    /\ pc = "chatting"
    /\ memory < MaxMessages
    /\ IF wants_course(user_input)
       THEN /\ IF is_complete(preferences)
                THEN /\ conversation_complete' = TRUE
                     /\ user_ready_to_generate' = TRUE
                ELSE UNCHANGED <<conversation_complete, user_ready_to_generate>>
            /\ memory' = memory + 1
            /\ UNCHANGED preferences
       ELSE /\ \/ preferences' = extract_preferences_from_input(preferences, "error", preferences)
               \/ \E reply \in LearningPreferences :
                    preferences' = extract_preferences_from_input(preferences, "parsed", reply)
            /\ \E response \in {"text", "raises"} :
                 memory' = IF response = "raises" THEN memory + 1 ELSE memory + 2
            /\ UNCHANGED <<conversation_complete, user_ready_to_generate>>
    /\ UNCHANGED <<pipeline_vars, scorer_vars, fetcher_vars, thread_vars>>

\* ConversationalLearningChatbot(initial_preferences)
InitChatbot ==
    /\ pc = "chatting"
    /\ user_preferences = [timeline |-> "1 month"]
    /\ learning_objectives = <<>>
    /\ objective_results = <<>>
    /\ final_course = NoCourse
    /\ summarizer = "none"
    /\ search_provider = "configured"
    /\ num_queries = 0
    /\ queries_done = 0
    /\ results_in_query = 0
    /\ all_resources = <<>>
    /\ search_failures = 0
    /\ tasks = <<>>
    /\ task_writes = <<>>
    /\ completion_order = <<>>
    /\ raised_in = "none"
    /\ objective_resources = <<>>
    /\ RequestUnused
    /\ ScorerUnused
    /\ FetcherUnused
    /\ preferences \in LearningPreferences
    /\ conversation_complete = FALSE
    /\ user_ready_to_generate = FALSE
    /\ memory = 0

NextChatbot == \E user_input \in UserInputs : chat_turn(user_input)

SpecChatbot == InitChatbot /\ [][NextChatbot]_vars

\* C30: user_ready_to_generate is true only while preferences.is_complete()
C30_ReadyOnlyWhenComplete ==
    user_ready_to_generate => is_complete(preferences)

====
